---------------------------- MODULE Spec2Model ----------------------------
(***************************************************************************)
(* Model of the NER span annotator front end:                              *)
(*   - the character-addressed component  (NerSpanAnnotator.tsx),          *)
(*   - the token-addressed component      (MySpanComponent.tsx),           *)
(*   - the static renderer                (SpanRenderer, unnamed/part_000).*)
(* Indices are 0-based as in the source; TLA+ sequences are 1-based, so    *)
(* unit i of the text is text[i + 1].                                      *)
(***************************************************************************)
EXTENDS Integers, Sequences, FiniteSets, TLC

VARIABLES
    variant,            \* "char" | "token" | "renderer": which engine/component runs
    text,               \* the unit sequence (characters or tokens)
    allowedLabels,      \* args["labels"] as supplied by the host (a sequence)
    componentSpans,     \* the React state array of EditableSpan objects
    perInfo,            \* the position markup of the last layout pass
    emitted,            \* the last value handed to Streamlit.setComponentValue
    pendingEffects,     \* the effects of the last render that have not run yet
    globalSpanCounter,  \* the module-level id counter
    lastOp              \* the last operation that ran, with its arguments

vars == <<variant, text, allowedLabels, componentSpans, perInfo, emitted,
          pendingEffects, globalSpanCounter, lastOp>>

---------------------------------------------------------------------------
(* Bounds of the model *)

\* the length of the unit sequence
MaxLen == 3

\* the most input spans the host supplies when only loading is explored
MaxRawSpans == 3

\* the most input spans the host supplies when editing is explored
MaxSeed == 1

\* the most spans the component holds while editing is explored
MaxSpans == 2

\* the largest id the counter hands out while editing is explored
MaxId == 2

\* the most whitespace units of a text while editing is explored
MaxSpaces == 1

\* the length of the text when only boundary moves are explored
MaxMoveLen == 4

\* the most input spans the host supplies when spans of any bounds are loaded
MaxHostSpans == 2

---------------------------------------------------------------------------
(* Labels and their collation order *)

\* Object.keys(DEFAULT_LABEL_COLORS).sort(), with the sentinel "MISC" put at
\* its place in the same order: the order String.localeCompare gives these
\* upper-case ASCII labels.
LabelCollation ==
    << "CARDINAL", "DATE", "EVENT", "FAC", "GPE", "LANGUAGE", "LAW", "LOC",
       "MISC", "MONEY", "NORP", "ORDINAL", "ORG", "PERCENT", "PERSON",
       "PRODUCT", "QUANTITY", "TIME", "WORK_OF_ART" >>

LabelRank(l) == CHOOSE i \in 1..Len(LabelCollation) : LabelCollation[i] = l

\* a.localeCompare(b): negative, zero or positive
localeCompare(a, b) == LabelRank(a) - LabelRank(b)

---------------------------------------------------------------------------
(* Sorting: Array.prototype.sort is stable *)

\* A variant of compareSpans: of two spans with the same start the shorter
\* one sorts first.
compareSpansShorterFirst(a, b) ==
    LET lenA == a.end_token - a.start_token
        lenB == b.end_token - b.start_token
        startDiff == a.start_token - b.start_token
    IN  IF startDiff # 0 THEN startDiff
        ELSE IF lenB # lenA THEN lenA - lenB
        ELSE localeCompare(a.label, b.label)

\* The comparator of the two React components.
compareSpans(a, b) ==
    LET lenA == a.end_token - a.start_token
        lenB == b.end_token - b.start_token
        startDiff == a.start_token - b.start_token
    IN  IF startDiff # 0 THEN startDiff
        ELSE IF lenB # lenA THEN lenB - lenA
        ELSE localeCompare(a.label, b.label)

\* A variant of rendererCompareSpans: the label is not compared.
rendererCompareSpansNoLabel(a, b) ==
    LET lengthA == a.end_token - a.start_token
        lengthB == b.end_token - b.start_token
        sortByStart == a.start_token - b.start_token
        sortByLength == lengthB - lengthA
    IN  IF sortByStart # 0 THEN sortByStart ELSE sortByLength

\* The comparator of SpanRenderer.
rendererCompareSpans(a, b) ==
    LET lengthA == a.end_token - a.start_token
        lengthB == b.end_token - b.start_token
        sortByStart == a.start_token - b.start_token
        sortByLength == lengthB - lengthA
        sortByLabel == localeCompare(a.label, b.label)
    IN  IF sortByStart # 0 THEN sortByStart
        ELSE IF sortByLength # 0 THEN sortByLength
        ELSE sortByLabel

Cmp(engine, a, b) ==
    IF engine = "renderer" THEN rendererCompareSpans(a, b) ELSE compareSpans(a, b)

\* A variant of InsertStable (an unstable sort): x is placed before the
\* elements it ties with.
InsertBeforeTies(engine, sorted, x) ==
    LET keep == {i \in 1..Len(sorted) : Cmp(engine, sorted[i], x) < 0}
        n == Cardinality(keep)
    IN  SubSeq(sorted, 1, n) \o <<x>> \o SubSeq(sorted, n + 1, Len(sorted))

\* x placed after every element that does not compare greater than it
InsertStable(engine, sorted, x) ==
    LET keep == {i \in 1..Len(sorted) : Cmp(engine, sorted[i], x) <= 0}
        n == Cardinality(keep)
    IN  SubSeq(sorted, 1, n) \o <<x>> \o SubSeq(sorted, n + 1, Len(sorted))

\* A variant of sortSpans: the array is left in the order it has.
sortSpansUnsorted(engine, spans) == spans

RECURSIVE sortSpans(_, _)
sortSpans(engine, spans) ==
    IF spans = <<>> THEN <<>>
    ELSE InsertStable(engine,
                      sortSpans(engine, SubSeq(spans, 1, Len(spans) - 1)),
                      spans[Len(spans)])

---------------------------------------------------------------------------
(* Span objects *)

\* An EditableSpan object carrying a render_slot of v (the object keeps its
\* other fields).
withSlot(s, v) ==
    [start_token |-> s.start_token, end_token |-> s.end_token,
     label |-> s.label, span_id |-> s.span_id, editing |-> s.editing,
     tempLabel |-> s.tempLabel, render_slot |-> v]

\* A plain Span object (types.ts) carrying a render_slot of v.
rendererWithSlot(s, v) ==
    [start_token |-> s.start_token, end_token |-> s.end_token,
     label |-> s.label, render_slot |-> v]

\* spans.forEach(s => (s.render_slot = 0))
resetSlots(spans) == [k \in 1..Len(spans) |-> withSlot(spans[k], 0)]

\* for (const s of spans) s.render_slot = 0
rendererResetSlots(spans) ==
    [k \in 1..Len(spans) |-> rendererWithSlot(spans[k], 0)]

\* A variant of lastSlot: the slot of the first intersecting span, not the
\* last.
lastSlotOfFirst(spans, inter) ==
    IF inter = <<>> THEN 0 ELSE spans[inter[1]].render_slot

\* A variant of lastSlot: every opening span takes the slot after no span
\* at all.
lastSlotNone(spans, inter) == 0

\* intersectingSpans[intersectingSpans.length - 1]?.render_slot ?? 0, where
\* inter lists the indices (into spans) of the intersecting span objects
lastSlot(spans, inter) ==
    IF inter = <<>> THEN 0 ELSE spans[inter[Len(inter)]].render_slot

---------------------------------------------------------------------------
(* Layout engine of the character-addressed component *)

\* The inner loop over the spans at character i (0-based); k is the index of
\* the span being visited.
RECURSIVE charScanSpans(_, _, _, _, _)
\* A variant of charScanSpans: the slot of a span is computed anew at every
\* position the span covers, not only where it opens.
charScanSpansRecomputed(i, k, spans, inter, entities) ==
    IF k > Len(spans) THEN [spans |-> spans, entities |-> entities]
    ELSE LET span == spans[k] IN
         IF span.start_token <= i /\ i < span.end_token
         THEN LET isStart == (i = span.start_token)
                  slot == lastSlot(spans, inter) + 1
                  spans2 == [spans EXCEPT ![k] = withSlot(span, slot)]
              IN  charScanSpans(i, k + 1, spans2, Append(inter, k),
                      Append(entities,
                             [label |-> span.label, span_id |-> span.span_id,
                              is_start |-> isStart, render_slot |-> slot]))
         ELSE charScanSpans(i, k + 1, spans, inter, entities)

charScanSpans(i, k, spans, inter, entities) ==
    IF k > Len(spans) THEN [spans |-> spans, entities |-> entities]
    ELSE LET span == spans[k] IN
         IF span.start_token <= i /\ i < span.end_token
         THEN LET isStart == (i = span.start_token)
                  slot == IF isStart THEN lastSlot(spans, inter) + 1
                          ELSE span.render_slot
                  spans2 == [spans EXCEPT ![k] = withSlot(span, slot)]
              IN  charScanSpans(i, k + 1, spans2, Append(inter, k),
                      Append(entities,
                             [label |-> span.label, span_id |-> span.span_id,
                              is_start |-> isStart, render_slot |-> slot]))
         ELSE charScanSpans(i, k + 1, spans, inter, entities)

\* The outer loop over the characters; charPush is the end of one round,
\* r being what the inner loop left.
RECURSIVE charScanUnits(_, _, _, _)
charPush(chars, i, out, r) ==
    charScanUnits(chars, i + 1, r.spans,
                  Append(out, [ch |-> chars[i + 1], idx |-> i,
                               entities |-> r.entities]))

charScanUnits(chars, i, spans, out) ==
    IF i >= Len(chars) THEN [spans |-> spans, markup |-> out]
    ELSE charPush(chars, i, out, charScanSpans(i, 1, spans, <<>>, <<>>))

\* assemblePerCharInfo: sorts the array in place, resets and assigns the
\* slots, and returns the markup.  The result holds the array as the call
\* leaves it (spans) and the returned value (markup).
assemblePerCharInfo(chars, spans) ==
    charScanUnits(chars, 0, resetSlots(sortSpans("char", spans)), <<>>)

---------------------------------------------------------------------------
(* Layout engine of the token-addressed component *)

RECURSIVE tokenScanSpans(_, _, _, _, _)
tokenScanSpans(i, k, spans, inter, entities) ==
    IF k > Len(spans) THEN [spans |-> spans, entities |-> entities]
    ELSE LET span == spans[k] IN
         IF span.start_token <= i /\ i < span.end_token
         THEN LET isStart == (i = span.start_token)
                  slot == IF isStart THEN lastSlot(spans, inter) + 1
                          ELSE span.render_slot
                  spans2 == [spans EXCEPT ![k] = withSlot(span, slot)]
              IN  tokenScanSpans(i, k + 1, spans2, Append(inter, k),
                      Append(entities,
                             [label |-> span.label, span_id |-> span.span_id,
                              is_start |-> isStart, render_slot |-> slot]))
         ELSE tokenScanSpans(i, k + 1,
                             [spans EXCEPT ![k] = withSlot(span, 0)],
                             inter, entities)

RECURSIVE tokenScanUnits(_, _, _, _)
tokenPush(tokens, i, out, r) ==
    tokenScanUnits(tokens, i + 1, r.spans,
                   Append(out, [text |-> tokens[i + 1], idx |-> i,
                                entities |-> r.entities]))

tokenScanUnits(tokens, i, spans, out) ==
    IF i >= Len(tokens) THEN [spans |-> spans, markup |-> out]
    ELSE tokenPush(tokens, i, out, tokenScanSpans(i, 1, spans, <<>>, <<>>))

assemblePerTokenInfo(tokens, spans) ==
    tokenScanUnits(tokens, 0, resetSlots(sortSpans("token", spans)), <<>>)

---------------------------------------------------------------------------
(* Layout engine of SpanRenderer *)

RECURSIVE rendererScanSpans(_, _, _, _, _)
rendererScanSpans(idx, k, spans, inter, entities) ==
    IF k > Len(spans) THEN [spans |-> spans, entities |-> entities]
    ELSE LET span == spans[k] IN
         IF span.start_token <= idx /\ idx < span.end_token
         THEN LET isStart == (idx = span.start_token)
                  slot == IF isStart THEN lastSlot(spans, inter) + 1
                          ELSE span.render_slot
                  spans2 == [spans EXCEPT ![k] = rendererWithSlot(span, slot)]
              IN  rendererScanSpans(idx, k + 1, spans2, Append(inter, k),
                      Append(entities,
                             [label |-> span.label, is_start |-> isStart,
                              render_slot |-> slot]))
         ELSE rendererScanSpans(idx, k + 1,
                                [spans EXCEPT ![k] = rendererWithSlot(span, 0)],
                                inter, entities)

RECURSIVE rendererScanUnits(_, _, _, _)
rendererPush(tokens, idx, out, r) ==
    rendererScanUnits(tokens, idx + 1, r.spans,
                      Append(out, [text |-> tokens[idx + 1],
                                   entities |-> r.entities]))

rendererScanUnits(tokens, idx, spans, out) ==
    IF idx >= Len(tokens) THEN [spans |-> spans, markup |-> out]
    ELSE rendererPush(tokens, idx, out,
                      rendererScanSpans(idx, 1, spans, <<>>, <<>>))

SpanRenderer_assemblePerTokenInfo(tokens, spans) ==
    rendererScanUnits(tokens, 0,
                      rendererResetSlots(sortSpans("renderer", spans)), <<>>)

\* The layout pass of the given engine.
layoutPass(engine, units, spans) ==
    IF engine = "char" THEN assemblePerCharInfo(units, spans)
    ELSE IF engine = "token" THEN assemblePerTokenInfo(units, spans)
    ELSE SpanRenderer_assemblePerTokenInfo(units, spans)

---------------------------------------------------------------------------
(* Host arguments *)

Min(a, b) == IF a <= b THEN a ELSE b

Max(a, b) == IF a >= b THEN a ELSE b

Range(seq) == {seq[i] : i \in 1..Len(seq)}

\* A unit is a word character or a whitespace character.
Units == {"a", " "}

\* args["text"].split("") / args["tokens"]
Texts ==
    {t \in [1..MaxLen -> Units] :
        Cardinality({i \in 1..MaxLen : t[i] = " "}) <= MaxSpaces}

\* a text of word characters only
WordText == [i \in 1..MaxLen |-> "a"]

\* The labels the host's input spans carry.
RawLabels == {"PERSON", "LOC"}

\* args["labels"]: absent (the default []) or the list PERSON, ORG
LabelConfigs == { <<>>, <<"PERSON", "ORG">> }

\* Input spans with 0 <= start < end <= n.
ValidRawSpans(n, labels) ==
    {x \in [start_token : 0..(n - 1), end_token : 1..n, label : labels] :
        x.start_token < x.end_token}

SeqsUpTo(S, n) == UNION {[1..k -> S] : k \in 0..n}

\* The keys of defaultColors (options.colors absent).
defaultColorKeys ==
    { "ORG", "PRODUCT", "GPE", "LOC", "PERSON", "NORP", "FAC", "EVENT", "LAW",
      "LANGUAGE", "WORK_OF_ART", "DATE", "TIME", "MONEY", "QUANTITY",
      "ORDINAL", "CARDINAL", "PERCENT" }

\* Object.keys(mergedColors).sort()
labelOptions == SelectSeq(LabelCollation, LAMBDA l : l \in defaultColorKeys)

---------------------------------------------------------------------------
(* Loading *)

\* ids globalSpanCounter++, in array order, starting from counter
RECURSIVE mapEditable(_, _)
mapEditable(arr, counter) ==
    IF arr = <<>> THEN <<>>
    ELSE LET s == arr[1] IN
         << [start_token |-> s.start_token, end_token |-> s.end_token,
             label |-> s.label, span_id |-> counter, editing |-> FALSE,
             tempLabel |-> s.label] >>
         \o mapEditable(Tail(arr), counter + 1)

\* A variant of charToEditableSpans: the labels are not tested.
charToEditableSpansUnfiltered(arr, labels, counter) ==
    mapEditable(arr, counter)

\* toEditableSpans of the character-addressed component
charToEditableSpans(arr, labels, counter) ==
    mapEditable(SelectSeq(arr, LAMBDA s : s.label \in Range(labels)), counter)

\* toEditableSpans of the token-addressed component
tokenToEditableSpans(arr, counter) == mapEditable(arr, counter)

toEditableSpans(v, arr, labels, counter) ==
    IF v = "char" THEN charToEditableSpans(arr, labels, counter)
    ELSE tokenToEditableSpans(arr, counter)

---------------------------------------------------------------------------
(* Emission to the host *)

\* componentSpans.map(({ span_id, editing, tempLabel, render_slot, ...rest }) => rest)
charPlainSpans(spans) ==
    [k \in 1..Len(spans) |->
        [start_token |-> spans[k].start_token,
         end_token |-> spans[k].end_token, label |-> spans[k].label]]

\* componentSpans.map(({ span_id, editing, tempLabel, ...rest }) => rest)
tokenPlainSpans(spans) ==
    [k \in 1..Len(spans) |->
        [start_token |-> spans[k].start_token,
         end_token |-> spans[k].end_token, label |-> spans[k].label,
         render_slot |-> spans[k].render_slot]]

plainSpans(v, spans) ==
    IF v = "char" THEN charPlainSpans(spans) ELSE tokenPlainSpans(spans)

---------------------------------------------------------------------------
(* Word stepping of the character-addressed component *)

\* isWhitespace(text[i]); text[i] is undefined outside the string
isWhitespace(txt, i) == i >= 0 /\ i < Len(txt) /\ txt[i + 1] = " "

\* while (i > lo && isWhitespace(text[i])) i--
RECURSIVE skipWsLeft(_, _, _)
skipWsLeft(txt, i, lo) ==
    IF i > lo /\ isWhitespace(txt, i) THEN skipWsLeft(txt, i - 1, lo) ELSE i

\* while (i > lo && !isWhitespace(text[i - 1])) i--
RECURSIVE skipWordLeft(_, _, _)
skipWordLeft(txt, i, lo) ==
    IF i > lo /\ ~isWhitespace(txt, i - 1) THEN skipWordLeft(txt, i - 1, lo)
    ELSE i

\* while (i < len && !isWhitespace(text[i])) i++
RECURSIVE skipWordRight(_, _)
skipWordRight(txt, i) ==
    IF i < Len(txt) /\ ~isWhitespace(txt, i) THEN skipWordRight(txt, i + 1)
    ELSE i

\* while (i < len && isWhitespace(text[i])) i++
RECURSIVE skipWsRight(_, _)
skipWsRight(txt, i) ==
    IF i < Len(txt) /\ isWhitespace(txt, i) THEN skipWsRight(txt, i + 1)
    ELSE i

\* A variant of moveStartLeft: the walk begins at the start itself, not one
\* unit before it.
moveStartLeftFromStart(txt, s) ==
    IF s.start_token <= 0 THEN s.start_token
    ELSE Max(0, skipWordLeft(txt, skipWsLeft(txt, s.start_token, 0), 0))

moveStartLeft(txt, s) ==
    IF s.start_token <= 0 THEN s.start_token
    ELSE Max(0, skipWordLeft(txt, skipWsLeft(txt, s.start_token - 1, 0), 0))

moveStartRight(txt, s) ==
    IF s.start_token >= Len(txt) - 1 THEN s.start_token
    ELSE LET i == skipWsRight(txt, skipWordRight(txt, s.start_token))
         IN  IF i >= s.end_token THEN Max(0, s.end_token - 1) ELSE i

moveEndLeft(txt, s) ==
    IF s.end_token <= s.start_token + 1 THEN s.end_token
    ELSE LET i == skipWordLeft(txt,
                      skipWsLeft(txt, s.end_token - 1, s.start_token),
                      s.start_token)
         IN  IF i <= s.start_token THEN s.start_token + 1 ELSE i

\* A variant of moveEndRight: the end moves by one unit.
moveEndRightOneUnit(txt, s) ==
    IF s.end_token >= Len(txt) THEN s.end_token ELSE s.end_token + 1

moveEndRight(txt, s) ==
    IF s.end_token >= Len(txt) THEN s.end_token
    ELSE LET i == skipWordRight(txt, skipWsRight(txt, s.end_token))
             j == IF i <= s.start_token THEN s.start_token + 1 ELSE i
         IN  IF j > Len(txt) THEN Len(txt) ELSE j

\* A variant of adjustStartSpan: the walked index is taken as it is, without
\* holding it below the end.
adjustStartSpanUnchecked(txt, s, dir) ==
    [s EXCEPT !.start_token =
        IF dir = "left" THEN skipWordLeft(txt, skipWsLeft(txt, s.start_token - 1, 0), 0)
        ELSE skipWsRight(txt, skipWordRight(txt, s.start_token))]

\* the span adjustStart returns for the span with the given id
adjustStartSpan(txt, s, dir) ==
    LET moved == IF dir = "left" THEN moveStartLeft(txt, s)
                 ELSE moveStartRight(txt, s)
        newStart == IF moved >= s.end_token THEN Max(0, s.end_token - 1)
                    ELSE moved
    IN  [s EXCEPT !.start_token = newStart]

\* A variant of adjustEndSpan: the walked index is taken as it is, without
\* holding it above the start.
adjustEndSpanUnchecked(txt, s, dir) ==
    [s EXCEPT !.end_token =
        IF dir = "left"
        THEN skipWordLeft(txt, skipWsLeft(txt, s.end_token - 1, s.start_token),
                          s.start_token)
        ELSE skipWordRight(txt, skipWsRight(txt, s.end_token))]

\* the span adjustEnd returns for the span with the given id
adjustEndSpan(txt, s, dir) ==
    LET moved == IF dir = "left" THEN moveEndLeft(txt, s)
                 ELSE moveEndRight(txt, s)
        newEnd == IF moved <= s.start_token THEN s.start_token + 1 ELSE moved
    IN  [s EXCEPT !.end_token = newEnd]

---------------------------------------------------------------------------
(* State updaters of the handlers: prev => next *)

\* A variant of removeSpan: the filter's test is inverted.
removeSpanInverted(prev, span_id) ==
    SelectSeq(prev, LAMBDA s : s.span_id = span_id)

removeSpan(prev, span_id) == SelectSeq(prev, LAMBDA s : s.span_id # span_id)

\* A variant of editToggle: the pending label is kept when editing ends.
editToggleKeepsPending(prev, span_id) ==
    [k \in 1..Len(prev) |->
        IF prev[k].span_id = span_id
        THEN [prev[k] EXCEPT !.editing = ~prev[k].editing]
        ELSE prev[k]]

editToggle(prev, span_id) ==
    [k \in 1..Len(prev) |->
        IF prev[k].span_id = span_id
        THEN [prev[k] EXCEPT !.editing = ~prev[k].editing,
                             !.tempLabel = IF prev[k].editing
                                           THEN prev[k].label
                                           ELSE prev[k].tempLabel]
        ELSE prev[k]]

\* A variant of approveEdit: editing ends without the pending label being
\* copied to the label.
approveEditKeepsLabel(prev, span_id) ==
    [k \in 1..Len(prev) |->
        IF prev[k].span_id = span_id
        THEN [prev[k] EXCEPT !.editing = FALSE]
        ELSE prev[k]]

approveEdit(prev, span_id) ==
    [k \in 1..Len(prev) |->
        IF prev[k].span_id = span_id
        THEN [prev[k] EXCEPT !.label = prev[k].tempLabel, !.editing = FALSE]
        ELSE prev[k]]

\* A variant of labelChange: the id is not tested.
labelChangeAnySpan(prev, span_id, newLabel) ==
    [k \in 1..Len(prev) |-> [prev[k] EXCEPT !.tempLabel = newLabel]]

labelChange(prev, span_id, newLabel) ==
    [k \in 1..Len(prev) |->
        IF prev[k].span_id = span_id
        THEN [prev[k] EXCEPT !.tempLabel = newLabel]
        ELSE prev[k]]

\* A variant of adjustStartAll: the id is not tested, the start of every span
\* is moved.
adjustStartEvery(txt, prev, span_id, dir) ==
    [k \in 1..Len(prev) |-> adjustStartSpan(txt, prev[k], dir)]

adjustStartAll(txt, prev, span_id, dir) ==
    [k \in 1..Len(prev) |->
        IF prev[k].span_id # span_id THEN prev[k]
        ELSE adjustStartSpan(txt, prev[k], dir)]

adjustEndAll(txt, prev, span_id, dir) ==
    [k \in 1..Len(prev) |->
        IF prev[k].span_id # span_id THEN prev[k]
        ELSE adjustEndSpan(txt, prev[k], dir)]

\* the label a span created from a selection gets
defaultLbl(v, labels) ==
    IF v = "char"
    THEN IF Len(labels) > 0 THEN labels[1] ELSE "MISC"
    ELSE IF Len(labelOptions) > 0 THEN labelOptions[1] ELSE "MISC"

\* A variant of mouseUpOutcome: the range is not tested against the text.
mouseUpOutcomeUnbounded(txt, sel) ==
    IF sel.collapsed THEN "noselection"
    ELSE IF sel.startIdx < 0 \/ sel.endIdx < 0 THEN "noindex"
    ELSE "create"

\* What handleMouseUp does with a selection: it returns early on no or a
\* collapsed selection ("noselection"), on an end that is not on a unit
\* ("noindex") and on a range that is empty or runs beyond the text
\* ("badrange"); otherwise it creates a span ("create").
mouseUpOutcome(txt, sel) ==
    IF sel.collapsed THEN "noselection"
    ELSE IF sel.startIdx < 0 \/ sel.endIdx < 0 THEN "noindex"
    ELSE LET spanStart == Min(sel.startIdx, sel.endIdx)
             spanEnd == Max(sel.startIdx, sel.endIdx) + 1
         IN  IF spanEnd <= spanStart \/ spanEnd > Len(txt) THEN "badrange"
             ELSE "create"

\* A variant of newSpan: the id is the counter's value of before the
\* previous increment.
newSpanStaleId(v, labels, counter, startIdx, endIdx) ==
    [span_id |-> counter - 1, label |-> defaultLbl(v, labels),
     start_token |-> Min(startIdx, endIdx),
     end_token |-> Max(startIdx, endIdx) + 1,
     editing |-> TRUE, tempLabel |-> defaultLbl(v, labels)]

\* the span object handleMouseUp creates (it has no render_slot field yet:
\* the layout pass of the next render adds it)
newSpan(v, labels, counter, startIdx, endIdx) ==
    [span_id |-> counter, label |-> defaultLbl(v, labels),
     start_token |-> Min(startIdx, endIdx),
     end_token |-> Max(startIdx, endIdx) + 1,
     editing |-> TRUE, tempLabel |-> defaultLbl(v, labels)]

---------------------------------------------------------------------------
(* Drawing of a position: the geometry the three renderers share *)

\* options.top_offset, options.span_label_offset, options.top_offset_step
\* at their defaults
top_offset == 40

span_label_offset == 20

top_offset_step == 17

\* e placed after every entity whose render_slot is not greater than its own
insertBySlot(sorted, e) ==
    LET keep == {i \in 1..Len(sorted) : sorted[i].render_slot <= e.render_slot}
        n == Cardinality(keep)
    IN  SubSeq(sorted, 1, n) \o <<e>> \o SubSeq(sorted, n + 1, Len(sorted))

\* [...entities].sort((a, b) => a.render_slot - b.render_slot)
RECURSIVE sortedEntities(_)
sortedEntities(entities) ==
    IF entities = <<>> THEN <<>>
    ELSE insertBySlot(sortedEntities(SubSeq(entities, 1, Len(entities) - 1)),
                      entities[Len(entities)])

\* a position is drawn with slices when it has entities and its unit is not
\* whitespace (unit.trim() === "")
drawn(unit, entities) == entities # <<>> /\ unit # " "

\* the height reserved for a drawn position
totalHeight(entities) ==
    top_offset + span_label_offset
        + top_offset_step * (Len(sortedEntities(entities)) - 1)

\* the vertical offset of the slice of an entity
topPos(entity) == top_offset + top_offset_step * (entity.render_slot - 1)

---------------------------------------------------------------------------
(* The state machine *)

Variants == {"char", "token"}

Engines == {"char", "token", "renderer"}

SpanIds == 1..MaxId

\* the values the data-ch-idx / data-token-idx attributes of the selection's
\* two ends parse to: -1 when the attribute is missing
SelectionIdx == (-1)..MaxLen

\* a selection: collapsed (its ends are not read), or the indices of its ends
Selections ==
    {[collapsed |-> TRUE]} \cup
    {[collapsed |-> FALSE, startIdx |-> a, endIdx |-> b] :
        a \in SelectionIdx, b \in SelectionIdx}

\* the labels a label change can carry: the options of the drop-down
LabelInputs == IF variant = "char" THEN Range(allowedLabels)
               ELSE {labelOptions[1], "PERSON"}

\* The module is loaded and the host has chosen the text and the labels;
\* nothing is mounted or rendered yet.
InitArgs(engines, texts, labelConfigs) ==
    /\ variant \in engines
    /\ text \in IF variant = "char" THEN texts ELSE {WordText}
    /\ allowedLabels \in IF variant = "renderer" THEN {<<>>} ELSE labelConfigs
    /\ componentSpans = <<>>
    /\ perInfo = <<>>
    /\ emitted = <<>>
    /\ pendingEffects = 0
    /\ globalSpanCounter = 1
    /\ lastOp = [op |-> "args"]

Mounted == lastOp.op # "args"

\* A render after a state update.  React first runs the effects the previous
\* render left pending, over the array of that render; then the component
\* function runs: useMemo runs the layout pass over the new state array (in
\* place) and the two effects of this render (emission, frame height) are
\* queued.  The component function returns with them pending.  (The frame
\* height effect has no state here; the emission is pending exactly when
\* both effects are.)
Render(next, op) ==
    \E r \in {layoutPass(variant, text, next)} :
        /\ emitted' = IF pendingEffects = 2
                      THEN plainSpans(variant, componentSpans) ELSE emitted
        /\ componentSpans' = r.spans
        /\ perInfo' = r.markup
        /\ pendingEffects' = 2
        /\ lastOp' = op

\* The pending effects run: the emission, when it is one of them, hands the
\* plain spans of the rendered array to the host.
runEffects ==
    /\ pendingEffects > 0
    /\ emitted' = IF pendingEffects = 2
                  THEN plainSpans(variant, componentSpans) ELSE emitted
    /\ pendingEffects' = 0
    /\ lastOp' = [op |-> "effects"]
    /\ UNCHANGED <<componentSpans, perInfo, globalSpanCounter>>
    /\ UNCHANGED <<variant, text, allowedLabels>>

Frame == UNCHANGED <<variant, text, allowedLabels>>

\* How many times React calls the component function, and with it the
\* initializer of useState, on the first render.  index.tsx renders
\* NerSpanAnnotator inside <React.StrictMode>: a production build of React
\* calls it once, a development build twice.  (No file of the repository
\* mounts MySpanComponent.)
initializerCalls(v) == IF v = "char" THEN {1, 2} ELSE {1}

\* First render of a component with args["spans"] = raw:
\* useState(() => toEditableSpans(rawSpans)) and the layout pass; nothing is
\* emitted before the effects run.  Every call of the initializer takes its
\* ids from the counter; the array of the last call is kept.  (The calls
\* make arrays of the same length: the earlier ones only advance the counter.
\* A development build also runs the layout pass of every render twice over
\* the same array, which the second run leaves as the first made it.)
MountWith(raw) ==
    /\ ~Mounted
    /\ variant \in Variants
    /\ \E calls \in initializerCalls(variant) :
       \E discarded \in {Len(toEditableSpans(variant, raw, allowedLabels,
                                             globalSpanCounter))
                             * (calls - 1)} :
       \E editable \in {toEditableSpans(variant, raw, allowedLabels,
                                         globalSpanCounter + discarded)} :
           /\ globalSpanCounter' = globalSpanCounter + discarded + Len(editable)
           /\ Render(editable, [op |-> "load", raw |-> raw])
    /\ Frame

\* SpanRenderer.render(tokens, spans): the layout pass over the caller's array
RenderWith(raw) ==
    /\ ~Mounted
    /\ variant = "renderer"
    /\ \E r \in {SpanRenderer_assemblePerTokenInfo(text, raw)} :
           /\ componentSpans' = r.spans
           /\ perInfo' = r.markup
    /\ lastOp' = [op |-> "load", raw |-> raw]
    /\ UNCHANGED <<emitted, pendingEffects, globalSpanCounter>>
    /\ Frame

\* The host's input spans are drawn from inputs.
Mount(inputs) == ~Mounted /\ \E raw \in inputs : MountWith(raw)

RendererRender(inputs) == ~Mounted /\ \E raw \in inputs : RenderWith(raw)

\* The host renders the mounted component again, with the arguments newText
\* and newLabels (args["spans"] is read by the first render only: the state
\* array is kept).  React first runs the effects still pending.  The
\* character-addressed component memoizes charArray on the text string: with
\* the same text no layout pass runs and no effect is queued.  In the
\* token-addressed component args["tokens"] is a new array at every render of
\* the host: the layout pass runs again over the state array and the frame
\* height effect is queued.  The emission effect is not queued: the state
\* array is the same.
Rerender(newText, newLabels) ==
    /\ Mounted
    /\ variant \in Variants
    /\ emitted' = IF pendingEffects = 2
                  THEN plainSpans(variant, componentSpans) ELSE emitted
    /\ IF variant = "char" /\ newText = text
       THEN /\ UNCHANGED <<componentSpans, perInfo>>
            /\ pendingEffects' = 0
       ELSE \E r \in {layoutPass(variant, newText, componentSpans)} :
                /\ componentSpans' = r.spans
                /\ perInfo' = r.markup
                /\ pendingEffects' = 1
    /\ text' = newText
    /\ allowedLabels' = newLabels
    /\ lastOp' = [op |-> "rerender"]
    /\ UNCHANGED <<variant, globalSpanCounter>>

\* The host renders the component again with the same arguments.
RenderAgain == Rerender(text, allowedLabels)

\* SpanRenderer.render called again with the same tokens and the array its
\* first call sorted and wrote slots into.
RendererRenderAgain ==
    /\ Mounted
    /\ variant = "renderer"
    /\ \E r \in {SpanRenderer_assemblePerTokenInfo(text, componentSpans)} :
           /\ componentSpans' = r.spans
           /\ perInfo' = r.markup
    /\ lastOp' = [op |-> "rerender"]
    /\ UNCHANGED <<emitted, pendingEffects, globalSpanCounter>>
    /\ Frame

handleRemoveSpan(span_id) ==
    /\ Mounted
    /\ Render(removeSpan(componentSpans, span_id),
              [op |-> "remove", id |-> span_id])
    /\ UNCHANGED globalSpanCounter
    /\ Frame

handleEditToggle(span_id) ==
    /\ Mounted
    /\ Render(editToggle(componentSpans, span_id),
              [op |-> "toggle", id |-> span_id])
    /\ UNCHANGED globalSpanCounter
    /\ Frame

\* (the operation is recorded with whether the span was in Editing)
handleApproveEdit(span_id) ==
    /\ Mounted
    /\ Render(approveEdit(componentSpans, span_id),
              [op |-> "approve", id |-> span_id,
               wasEditing |-> \E s \in Range(componentSpans) :
                                 s.span_id = span_id /\ s.editing])
    /\ UNCHANGED globalSpanCounter
    /\ Frame

handleLabelChange(span_id, newLabel) ==
    /\ Mounted
    /\ Render(labelChange(componentSpans, span_id, newLabel),
              [op |-> "label", id |-> span_id])
    /\ UNCHANGED globalSpanCounter
    /\ Frame

\* the start and the end of the span with the given id, -1 when there is none
startOf(spans, span_id) ==
    IF \E s \in Range(spans) : s.span_id = span_id
    THEN (CHOOSE s \in Range(spans) : s.span_id = span_id).start_token
    ELSE -1

endOf(spans, span_id) ==
    IF \E s \in Range(spans) : s.span_id = span_id
    THEN (CHOOSE s \in Range(spans) : s.span_id = span_id).end_token
    ELSE -1

\* (a move is recorded with the boundary's value of before it)
adjustStart(span_id, dir) ==
    /\ Mounted
    /\ variant = "char"
    /\ Render(adjustStartAll(text, componentSpans, span_id, dir),
              [op |-> "adjustStart", id |-> span_id, dir |-> dir,
               from |-> startOf(componentSpans, span_id)])
    /\ UNCHANGED globalSpanCounter
    /\ Frame

adjustEnd(span_id, dir) ==
    /\ Mounted
    /\ variant = "char"
    /\ Render(adjustEndAll(text, componentSpans, span_id, dir),
              [op |-> "adjustEnd", id |-> span_id, dir |-> dir,
               from |-> endOf(componentSpans, span_id)])
    /\ UNCHANGED globalSpanCounter
    /\ Frame

\* handleMouseUp returning before it creates anything: no state update, so
\* no render; effects that are pending stay pending
handleMouseUpIgnored(sel) ==
    /\ Mounted
    /\ \E outcome \in {mouseUpOutcome(text, sel)} :
           /\ outcome # "create"
           /\ lastOp' = [op |-> "mouseup", outcome |-> outcome]
    /\ UNCHANGED <<componentSpans, perInfo, emitted, pendingEffects,
                   globalSpanCounter>>
    /\ Frame

\* handleMouseUp creating a span
handleMouseUpCreates(sel) ==
    /\ Mounted
    /\ mouseUpOutcome(text, sel) = "create"
    /\ Len(componentSpans) < MaxSpans
    /\ globalSpanCounter <= MaxId
    /\ globalSpanCounter' = globalSpanCounter + 1
    /\ Render(Append(componentSpans,
                     newSpan(variant, allowedLabels, globalSpanCounter,
                             sel.startIdx, sel.endIdx)),
              [op |-> "mouseup", outcome |-> "create"])
    /\ Frame

handleMouseUp(sel) ==
    \/ handleMouseUpIgnored(sel)
    \/ handleMouseUpCreates(sel)

\* Editing with args["labels"] absent: every text, both components.
Init == InitArgs(Variants, Texts, {<<>>})

Next ==
    \/ Mount(SeqsUpTo(ValidRawSpans(MaxLen, {"PERSON"}), MaxSeed))
    \/ \E id \in SpanIds : handleRemoveSpan(id)
    \/ \E id \in SpanIds : handleEditToggle(id)
    \/ \E id \in SpanIds : handleApproveEdit(id)
    \/ \E id \in SpanIds, l \in LabelInputs : handleLabelChange(id, l)
    \/ \E id \in SpanIds, dir \in {"left", "right"} : adjustStart(id, dir)
    \/ \E id \in SpanIds, dir \in {"left", "right"} : adjustEnd(id, dir)
    \/ \E sel \in Selections : handleMouseUp(sel)
    \/ RenderAgain
    \/ runEffects

Spec == Init /\ [][Next]_vars

\* Editing over the text of word units only, with and without args["labels"].
InitEdit == InitArgs(Variants, {WordText}, LabelConfigs)

SpecEdit == InitEdit /\ [][Next]_vars

\* Boundary moves only: the character-addressed component over every text
\* of MaxMoveLen units, one loaded span.
MoveTexts == [1..MaxMoveLen -> Units]

InitMoves == InitArgs({"char"}, MoveTexts, LabelConfigs)

NextMoves ==
    \/ Mount(SeqsUpTo(ValidRawSpans(MaxMoveLen, {"PERSON"}), MaxSeed))
    \/ \E id \in SpanIds, dir \in {"left", "right"} : adjustStart(id, dir)
    \/ \E id \in SpanIds, dir \in {"left", "right"} : adjustEnd(id, dir)
    \/ RenderAgain
    \/ runEffects

SpecMoves == InitMoves /\ [][NextMoves]_vars

\* Input spans as a host can send them: the bounds are not checked against
\* each other or against the n units.
HostRawSpans(n, labels) ==
    [start_token : (-1)..n, end_token : 0..(n + 1), label : labels]

\* Loading only: the two components, input spans of any bounds.
InitHost == InitArgs(Variants, {WordText}, LabelConfigs)

NextHost ==
    \/ Mount(SeqsUpTo(HostRawSpans(MaxLen, {"PERSON"}), MaxHostSpans))
    \/ RenderAgain
    \/ runEffects

SpecHost == InitHost /\ [][NextHost]_vars

\* Loading and layout only: every engine, more input spans, no editing.  The
\* layout pass runs again over the array it has sorted when the host renders
\* again and when a handler is given an id no span has (the id counter's
\* value: the updater returns a new array of the same spans).
InitLoad == InitArgs(Engines, {WordText}, LabelConfigs)

LoadInputs == SeqsUpTo(ValidRawSpans(MaxLen, RawLabels), MaxRawSpans)

NextLoad ==
    \/ Mount(LoadInputs)
    \/ RendererRender(LoadInputs)
    \/ RenderAgain
    \/ RendererRenderAgain
    \/ variant \in Variants /\ handleRemoveSpan(globalSpanCounter)
    \/ runEffects

SpecLoad == InitLoad /\ [][NextLoad]_vars

\* The host changes the arguments of the mounted component: every text and
\* label list, the spans loaded by the first render.
InitArgsChange == InitArgs(Variants, Texts, LabelConfigs)

NextArgsChange ==
    \/ Mount(SeqsUpTo(ValidRawSpans(MaxLen, {"PERSON"}), MaxSeed))
    \/ \E newText \in IF variant = "char" THEN Texts ELSE {WordText},
          newLabels \in LabelConfigs : Rerender(newText, newLabels)
    \/ runEffects

SpecArgsChange == InitArgsChange /\ [][NextArgsChange]_vars

---------------------------------------------------------------------------
(* Properties *)

\* the spans of a position markup entry's entities, by their place in it
EntityIdx(p) == 1..Len(perInfo[p].entities)

\* the positions of the last position markup
Positions == 1..Len(perInfo)

\* the projection of a span sequence to (start, end, label)
startEndLabel(spans) ==
    [k \in 1..Len(spans) |->
        [start_token |-> spans[k].start_token,
         end_token |-> spans[k].end_token, label |-> spans[k].label]]

\* how many elements of seq equal x
Count(seq, x) == Cardinality({k \in 1..Len(seq) : seq[k] = x})

\* the two sequences hold the same elements, each as many times
SameBag(a, b) ==
    /\ Len(a) = Len(b)
    /\ \A x \in Range(a) \cup Range(b) : Count(a, x) = Count(b, x)

\* C1: in the position markup of a layout pass, two distinct spans covering
\* a common position never carry the same renderSlot at that position.
C1_NoSlotCollision ==
    \A p \in Positions : \A i \in EntityIdx(p), j \in EntityIdx(p) :
        i # j => perInfo[p].entities[i].render_slot
                 # perInfo[p].entities[j].render_slot

\* C1 happens: a layout pass over three spans that all cover one position.
C1_Witness ==
    /\ lastOp.op = "load"
    /\ \E p \in Positions : Len(perInfo[p].entities) = 3

\* C2: through every sequence of create, begin-edit, cancel-edit,
\* change-pending-label, approve, remove, move-start and move-end operations
\* over validly loaded spans, every span satisfies 0 <= start < end <= length.
C2_SpansStayValid ==
    \A k \in 1..Len(componentSpans) :
        /\ 0 <= componentSpans[k].start_token
        /\ componentSpans[k].start_token < componentSpans[k].end_token
        /\ componentSpans[k].end_token <= Len(text)

\* C2 happens: with two spans in the set, a move of the start to the right
\* was stopped one unit before the end.
C2_Witness ==
    /\ lastOp.op = "adjustStart" /\ lastOp.id = 1 /\ lastOp.dir = "right"
    /\ Len(componentSpans) = 2
    /\ \E k \in 1..Len(componentSpans) :
           /\ componentSpans[k].span_id = 1
           /\ componentSpans[k].start_token > 0
           /\ componentSpans[k].start_token = componentSpans[k].end_token - 1

\* C3: a second layout pass over the same text and the spans as the first
\* pass left them (sorted, slots written) yields identical renderSlot values
\* and an identical position markup.  The second pass is the one of a render
\* of the host with the same arguments, or of the render that follows a
\* handler given an id no span has.
C3_RelayoutIdentical ==
    [][(/\ text' = text
        /\ \/ lastOp'.op = "rerender"
           \/ /\ lastOp'.op = "remove"
              /\ \A s \in Range(componentSpans) : s.span_id # lastOp'.id)
        => perInfo' = perInfo /\ componentSpans' = componentSpans]_vars

\* C3 happens: in the character-addressed component a second pass ran over
\* three spans, two of them equal in start, end and label, with slots up to
\* 3 written by the first pass.
C3_Witness ==
    /\ lastOp.op = "remove"
    /\ variant = "char"
    /\ Len(componentSpans) = 3
    /\ \E i \in 1..3, j \in 1..3 :
           i < j /\ startEndLabel(componentSpans)[i] = startEndLabel(componentSpans)[j]
    /\ \E p \in Positions : \E i \in EntityIdx(p) :
           perInfo[p].entities[i].render_slot = 3

\* the largest renderSlot among the entities of position p
MaxSlotAt(p) ==
    CHOOSE m \in {perInfo[p].entities[i].render_slot : i \in EntityIdx(p)} :
        \A i \in EntityIdx(p) : perInfo[p].entities[i].render_slot <= m

\* C4: after a layout pass, at every position the largest renderSlot among
\* the spans active there equals the number of spans active there.
C4_MaxSlotIsActiveCount ==
    \A p \in Positions :
        perInfo[p].entities # <<>> => MaxSlotAt(p) = Len(perInfo[p].entities)

\* the slots held, when entity j of position p is visited, by the spans open
\* at p: those visited before it
HeldBefore(p, j) == {perInfo[p].entities[i].render_slot : i \in 1..(j - 1)}

\* the lowest slot >= 1 outside held
LowestFree(held) ==
    CHOOSE n \in 1..(Cardinality(held) + 1) :
        n \notin held /\ \A m \in 1..(n - 1) : m \in held

\* C5: a span opening at a position gets the lowest slot >= 1 that no span
\* still open at that position holds, so a released slot is reused.
C5_LowestFreeSlot ==
    \A p \in Positions : \A j \in EntityIdx(p) :
        perInfo[p].entities[j].is_start
            => perInfo[p].entities[j].render_slot = LowestFree(HeldBefore(p, j))

\* C6: every emitted span holds start, end and label and nothing else (no
\* id, editing flag, pending label or renderSlot), in both components, in
\* every value the effects have handed to the host.
C6_EmittedFieldsOnly ==
    \A k \in 1..Len(emitted) :
        DOMAIN emitted[k] = {"start_token", "end_token", "label"}

\* C7: when an interaction can be processed, the layout and the emission of
\* every earlier mutation are done, none is pending: the position markup is
\* the layout of the current span set and the emitted value is the current
\* span set projected to (start, end, label).  (The handlers are enabled in
\* every mounted state, with effects pending or not.)
C7_EmissionCurrent ==
    Mounted =>
        /\ perInfo = layoutPass(variant, text, componentSpans).markup
        /\ emitted = startEndLabel(componentSpans)

\* the input spans whose label is one of labels, in input order
AcceptedOf(raw, labels) == SelectSeq(raw, LAMBDA s : s.label \in Range(labels))

\* C8: with acceptedLabels supplied, the span set materialized at load holds
\* exactly the input spans whose label is accepted, unchanged in start, end
\* and label.
C8_LoadKeepsAcceptedOnly ==
    (lastOp.op = "load" /\ variant \in Variants /\ allowedLabels # <<>>)
        => SameBag(startEndLabel(componentSpans),
                   AcceptedOf(lastOp.raw, allowedLabels))

\* the unit range of the selection is empty (a collapsed selection) or ends
\* beyond the text
RangeRejected(sel) ==
    IF sel.collapsed THEN TRUE
    ELSE /\ sel.startIdx >= 0
         /\ sel.endIdx >= 0
         /\ Max(sel.startIdx, sel.endIdx) + 1 > Len(text)

\* C9: create-from-selection with a unit range whose end <= start or whose
\* end exceeds the length adds no span and leaves every span as it is: a
\* step that changes the span set is never the handling of such a selection.
C9_BadRangeAddsNothing ==
    [][componentSpans' # componentSpans
        => \A sel \in Selections :
               RangeRejected(sel) => ~handleMouseUp(sel)]_vars

\* C9 happens: a selection running beyond the text was handled while the set
\* held a span.
C9_Witness ==
    /\ lastOp = [op |-> "mouseup", outcome |-> "badrange"]
    /\ Len(componentSpans) >= 1

\* the first accepted label, or the sentinel
FirstAcceptedOrMisc == IF allowedLabels # <<>> THEN allowedLabels[1] ELSE "MISC"

\* a span without its layout slot
sansSlot(s) ==
    [start_token |-> s.start_token, end_token |-> s.end_token,
     label |-> s.label, span_id |-> s.span_id, editing |-> s.editing,
     tempLabel |-> s.tempLabel]

\* C10: an accepted create-from-selection adds exactly one span, Editing,
\* whose label and pending label are the first accepted label, or "MISC"
\* when none is configured; the spans that existed are unchanged.
C10_CreateDefaults ==
    [][(lastOp'.op = "mouseup" /\ lastOp'.outcome = "create")
        => \E k \in 1..Len(componentSpans') :
              /\ componentSpans'[k].span_id = globalSpanCounter
              /\ componentSpans'[k].editing
              /\ componentSpans'[k].label = FirstAcceptedOrMisc
              /\ componentSpans'[k].tempLabel = FirstAcceptedOrMisc
              /\ Len(componentSpans') = Len(componentSpans) + 1
              /\ {sansSlot(componentSpans'[i]) :
                      i \in 1..Len(componentSpans') \ {k}}
                 = {sansSlot(componentSpans[i]) :
                      i \in 1..Len(componentSpans)}]_vars

\* the ids of the spans of a set
Ids(spans) == {spans[k].span_id : k \in 1..Len(spans)}

\* the operations that edit a span in place
EditOps == {"toggle", "approve", "label", "adjustStart", "adjustEnd"}

\* C11: the ids of the spans of the set are pairwise distinct; an id that
\* enters the set is at least the counter, hence greater than every id
\* handed out before, and the counter never falls; no label edit, approve,
\* cancel or boundary move changes the ids of the set.
C11_IdsDistinctAndFresh ==
    [][/\ \A i \in 1..Len(componentSpans'), j \in 1..Len(componentSpans') :
              i # j => componentSpans'[i].span_id # componentSpans'[j].span_id
       /\ \A id \in Ids(componentSpans') \ Ids(componentSpans) :
              globalSpanCounter <= id /\ id < globalSpanCounter'
       /\ \A id \in Ids(componentSpans) : id < globalSpanCounter
       /\ globalSpanCounter <= globalSpanCounter'
       /\ lastOp'.op \in EditOps
              => /\ Ids(componentSpans') = Ids(componentSpans)
                 /\ Len(componentSpans') = Len(componentSpans)]_vars

\* C11 happens: the loaded span 1 was removed and a span was created after
\* it: it has id 2, not the id of the removed span.
C11_Witness ==
    /\ lastOp = [op |-> "mouseup", outcome |-> "create"]
    /\ Ids(componentSpans) = {2}
    /\ globalSpanCounter = 3

\* the span of the set with the given id
SpanOf(spans, id) == CHOOSE s \in Range(spans) : s.span_id = id

\* the spans of the set other than the one with the given id, without their
\* layout slots
OthersOf(spans, id) == {sansSlot(s) : s \in {x \in Range(spans) : x.span_id # id}}

\* C12: approve on a span in Editing moves it to Normal with its label the
\* pending label it had just before; its start, end and id, and all other
\* spans, are unchanged.
C12_ApproveCommits ==
    [][(/\ lastOp'.op = "approve"
        /\ lastOp'.id \in Ids(componentSpans)
        /\ SpanOf(componentSpans, lastOp'.id).editing)
        => /\ lastOp'.id \in Ids(componentSpans')
           /\ ~SpanOf(componentSpans', lastOp'.id).editing
           /\ SpanOf(componentSpans', lastOp'.id).label
                  = SpanOf(componentSpans, lastOp'.id).tempLabel
           /\ SpanOf(componentSpans', lastOp'.id).start_token
                  = SpanOf(componentSpans, lastOp'.id).start_token
           /\ SpanOf(componentSpans', lastOp'.id).end_token
                  = SpanOf(componentSpans, lastOp'.id).end_token
           /\ Len(componentSpans') = Len(componentSpans)
           /\ OthersOf(componentSpans', lastOp'.id)
                  = OthersOf(componentSpans, lastOp'.id)]_vars

\* C12 happens: span 1, in Editing with the pending label ORG, was approved
\* and is now a Normal span labelled ORG.
C12_Witness ==
    /\ lastOp = [op |-> "approve", id |-> 1, wasEditing |-> TRUE]
    /\ 1 \in Ids(componentSpans)
    /\ ~SpanOf(componentSpans, 1).editing
    /\ SpanOf(componentSpans, 1).label = "ORG"

\* C13: cancel (edit toggled off) on a span in Editing moves it to Normal,
\* leaves its label as it is and resets the pending label to the label; and
\* no change of the pending label touches a label, so the label is the one of
\* before the edit began.
C13_CancelDiscards ==
    [][/\ (/\ lastOp'.op = "toggle"
           /\ lastOp'.id \in Ids(componentSpans)
           /\ SpanOf(componentSpans, lastOp'.id).editing)
           => /\ lastOp'.id \in Ids(componentSpans')
              /\ ~SpanOf(componentSpans', lastOp'.id).editing
              /\ SpanOf(componentSpans', lastOp'.id).label
                     = SpanOf(componentSpans, lastOp'.id).label
              /\ SpanOf(componentSpans', lastOp'.id).tempLabel
                     = SpanOf(componentSpans, lastOp'.id).label
       /\ lastOp'.op = "label"
           => /\ Ids(componentSpans') = Ids(componentSpans)
              /\ \A id \in Ids(componentSpans) :
                     SpanOf(componentSpans', id).label
                         = SpanOf(componentSpans, id).label]_vars

\* C13 happens: the edit of the loaded span 1 was cancelled while a second
\* span was in the set: span 1 is Normal with label and pending label PERSON.
C13_Witness ==
    /\ lastOp = [op |-> "toggle", id |-> 1]
    /\ Len(componentSpans) = 2
    /\ 1 \in Ids(componentSpans)
    /\ ~SpanOf(componentSpans, 1).editing
    /\ SpanOf(componentSpans, 1).label = "PERSON"
    /\ SpanOf(componentSpans, 1).tempLabel = "PERSON"

\* C14: begin edit (edit toggled on) on a span in Normal moves it to Editing
\* with its pending label equal to its label.
C14_BeginEditInitsPending ==
    [][(/\ lastOp'.op = "toggle"
        /\ lastOp'.id \in Ids(componentSpans)
        /\ ~SpanOf(componentSpans, lastOp'.id).editing)
        => /\ lastOp'.id \in Ids(componentSpans')
           /\ SpanOf(componentSpans', lastOp'.id).editing
           /\ SpanOf(componentSpans', lastOp'.id).tempLabel
                  = SpanOf(componentSpans', lastOp'.id).label]_vars

\* a span without its layout slot and its pending label
sansPending(s) ==
    [start_token |-> s.start_token, end_token |-> s.end_token,
     label |-> s.label, span_id |-> s.span_id, editing |-> s.editing]

\* C15: a change of the pending label applied to a span in Normal changes
\* nothing; applied to a span in Editing it changes nothing but that span's
\* pending label, and the emitted (start, end, label) sequence stays the
\* same: the emission that follows the change equals the one before it.
C15_LabelChangeOnlyInEditing ==
    [][/\ (lastOp.op = "label" /\ lastOp'.op = "effects")
           => startEndLabel(emitted') = startEndLabel(emitted)
       /\ (lastOp'.op = "label" /\ lastOp'.id \in Ids(componentSpans))
        => /\ Len(componentSpans') = Len(componentSpans)
           /\ OthersOf(componentSpans', lastOp'.id)
                  = OthersOf(componentSpans, lastOp'.id)
           /\ lastOp'.id \in Ids(componentSpans')
           /\ sansPending(SpanOf(componentSpans', lastOp'.id))
                  = sansPending(SpanOf(componentSpans, lastOp'.id))
           /\ ~SpanOf(componentSpans, lastOp'.id).editing
                  => SpanOf(componentSpans', lastOp'.id).tempLabel
                         = SpanOf(componentSpans, lastOp'.id).tempLabel]_vars

\* C16: remove on an id of the set deletes exactly that span, in Normal or
\* in Editing: no span with that id is left and every other span is there
\* with its start, end, label, id and editing overlay unchanged.
C16_RemoveDeletesOne ==
    [][(lastOp'.op = "remove" /\ lastOp'.id \in Ids(componentSpans))
        => /\ lastOp'.id \notin Ids(componentSpans')
           /\ Len(componentSpans') = Len(componentSpans) - 1
           /\ {sansSlot(s) : s \in Range(componentSpans')}
                  = OthersOf(componentSpans, lastOp'.id)]_vars

\* C16 happens: span 1 was removed from a set of two; span 2, created after
\* it and still in Editing, is all that is left.
C16_Witness ==
    /\ lastOp = [op |-> "remove", id |-> 1]
    /\ Len(componentSpans) = 1
    /\ componentSpans[1].span_id = 2
    /\ componentSpans[1].editing

\* the operations that carry the id of a span
IdOps == EditOps \cup {"remove"}

\* C17: a remove, begin or cancel edit, change of the pending label, approve,
\* move of the start or move of the end with an id that is not in the set
\* changes nothing: the span set, the position markup and the id counter
\* stay as they are, and the step hands the host nothing but the emission of
\* that same set (the emission that was pending, if any).
C17_UnknownIdIsNoOp ==
    [][(lastOp'.op \in IdOps /\ lastOp'.id \notin Ids(componentSpans))
        => /\ componentSpans' = componentSpans
           /\ perInfo' = perInfo
           /\ globalSpanCounter' = globalSpanCounter
           /\ pendingEffects < 2 => emitted' = emitted
           /\ pendingEffects = 2
                  => startEndLabel(emitted') = startEndLabel(componentSpans)]_vars

\* C17 happens: a change of the pending label was issued for span 1 after
\* it was removed, while span 2 was in the set.
C17_Witness ==
    /\ lastOp = [op |-> "label", id |-> 1]
    /\ Ids(componentSpans) = {2}

\* where the word step to the right of index i ends: after the word at i
\* and the whitespace that follows it
wordStepRight(i) == skipWsRight(text, skipWordRight(text, i))

\* where the word step to the left of the end e ends: at the beginning of
\* the word before e
wordStepLeft(e) == skipWordLeft(text, skipWsLeft(text, e - 1, 0), 0)

\* C18: a boundary adjustment on a valid span always yields a span with
\* 0 <= start < end <= length; when the word step of move-start-right
\* reaches or passes the end the new start is end - 1, and when the word step
\* of move-end-left reaches or passes the start the new end is start + 1; the
\* other boundary is unchanged.
C18_CollapseClamped ==
    [][(/\ lastOp'.op \in {"adjustStart", "adjustEnd"}
        /\ lastOp'.id \in Ids(componentSpans))
        => /\ lastOp'.id \in Ids(componentSpans')
           /\ 0 <= SpanOf(componentSpans', lastOp'.id).start_token
           /\ SpanOf(componentSpans', lastOp'.id).start_token
                  < SpanOf(componentSpans', lastOp'.id).end_token
           /\ SpanOf(componentSpans', lastOp'.id).end_token <= Len(text)
           /\ (/\ lastOp'.op = "adjustStart"
               /\ lastOp'.dir = "right"
               /\ wordStepRight(SpanOf(componentSpans, lastOp'.id).start_token)
                      >= SpanOf(componentSpans, lastOp'.id).end_token)
                  => /\ SpanOf(componentSpans', lastOp'.id).start_token
                            = SpanOf(componentSpans, lastOp'.id).end_token - 1
                     /\ SpanOf(componentSpans', lastOp'.id).end_token
                            = SpanOf(componentSpans, lastOp'.id).end_token
           /\ (/\ lastOp'.op = "adjustEnd"
               /\ lastOp'.dir = "left"
               /\ wordStepLeft(SpanOf(componentSpans, lastOp'.id).end_token)
                      <= SpanOf(componentSpans, lastOp'.id).start_token)
                  => /\ SpanOf(componentSpans', lastOp'.id).end_token
                            = SpanOf(componentSpans, lastOp'.id).start_token + 1
                     /\ SpanOf(componentSpans', lastOp'.id).start_token
                            = SpanOf(componentSpans, lastOp'.id).start_token]_vars

\* C18 happens: the end of a span over the whole of a one-word text was
\* moved left; the step reached the start and the end was put one unit
\* after it.
C18_Witness ==
    /\ \A i \in 1..Len(text) : text[i] = "a"
    /\ lastOp = [op |-> "adjustEnd", id |-> 1, dir |-> "left",
                 from |-> Len(text)]
    /\ 1 \in Ids(componentSpans)
    /\ SpanOf(componentSpans, 1).start_token = 0
    /\ SpanOf(componentSpans, 1).end_token = 1

\* move-start-left on the span with the given id, moving its start by one
\* unit (not below 0) and leaving its end
MoveStartLeftOneUnit(id) ==
    /\ adjustStart(id, "left")
    /\ SpanOf(componentSpans', id).start_token
           = Max(0, SpanOf(componentSpans, id).start_token - 1)
    /\ SpanOf(componentSpans', id).end_token
           = SpanOf(componentSpans, id).end_token

\* C19: in a token-addressed sequence, move-start-left moves the start of a
\* span by exactly one unit and does nothing at start 0: for every span of
\* the token-addressed component such a step can be taken.
C19_TokenMoveStartLeft ==
    (Mounted /\ variant = "token")
        => \A id \in Ids(componentSpans) : ENABLED MoveStartLeftOneUnit(id)

\* a span with 0 <= start < end <= length
ValidSpan(s) ==
    /\ 0 <= s.start_token
    /\ s.start_token < s.end_token
    /\ s.end_token <= Len(text)

\* C20: an input span with end <= start, start < 0 or end > length is dropped
\* at load: after the load every span of the set, every span emitted by the
\* effects of the load and the span of every entity of the position markup
\* is a valid one.
C20_InvalidInputDropped ==
    Mounted
        => /\ \A s \in Range(componentSpans) : ValidSpan(s)
           /\ \A e \in Range(emitted) : ValidSpan(e)
           /\ \A p \in Positions : \A i \in EntityIdx(p) :
                  \E s \in Range(componentSpans) :
                      /\ s.span_id = perInfo[p].entities[i].span_id
                      /\ ValidSpan(s)

\* span a is not after span b in the order: ascending start, then descending
\* length, then ascending label
OrderedBefore(a, b) ==
    \/ a.start_token < b.start_token
    \/ /\ a.start_token = b.start_token
       /\ a.end_token - a.start_token > b.end_token - b.start_token
    \/ /\ a.start_token = b.start_token
       /\ a.end_token = b.end_token
       /\ LabelRank(a.label) <= LabelRank(b.label)

\* span s covers position p (1-based in the markup, unit p - 1)
Covers(s, p) == s.start_token <= p - 1 /\ p - 1 < s.end_token

\* the place, among the entities of position p, of the k-th span of the
\* processed array (which covers p)
EntityOf(p, k) ==
    Cardinality({j \in 1..k : Covers(componentSpans[j], p)})

\* the slot the markup of position p shows for the k-th span
SlotAt(p, k) == perInfo[p].entities[EntityOf(p, k)].render_slot

\* C21: the layout processes the spans in the order ascending start, then
\* descending length, then ascending label; of two spans with the same start
\* and different lengths the longer one gets the lower slot.
C21_LayoutOrder ==
    Mounted =>
        /\ \A i \in 1..Len(componentSpans), j \in 1..Len(componentSpans) :
               i < j => OrderedBefore(componentSpans[i], componentSpans[j])
        /\ \A i \in 1..Len(componentSpans), j \in 1..Len(componentSpans) :
               (/\ componentSpans[i].start_token = componentSpans[j].start_token
                /\ componentSpans[i].end_token > componentSpans[j].end_token)
               => SlotAt(componentSpans[i].start_token + 1, i)
                      < SlotAt(componentSpans[i].start_token + 1, j)

\* C21 happens: the host sent a shorter span before a longer one of the same
\* start whose label sorts after; the longer one has slot 1, the shorter 2.
C21_Witness ==
    /\ lastOp.op = "load"
    /\ lastOp.raw = << [start_token |-> 0, end_token |-> 2, label |-> "LOC"],
                       [start_token |-> 0, end_token |-> 3, label |-> "PERSON"] >>
    /\ Len(componentSpans) = 2
    /\ perInfo[1].entities[1].label = "PERSON"
    /\ perInfo[1].entities[1].render_slot = 1
    /\ perInfo[1].entities[2].label = "LOC"
    /\ perInfo[1].entities[2].render_slot = 2

\* the spans of a set in ascending order of their ids
IdOrdered(spans) ==
    [k \in 1..Len(spans) |->
        CHOOSE s \in Range(spans) :
            Cardinality({t \in Range(spans) : t.span_id < s.span_id}) = k - 1]

\* the two spans tie on start, length and label
Tie(a, b) ==
    /\ a.start_token = b.start_token
    /\ a.end_token = b.end_token
    /\ a.label = b.label

\* C22: spans that tie on start, length and label are processed in ascending
\* order of their ids, so the slots and the position markup depend on the
\* current span set only, whatever the history that led to it: they are those
\* of a layout pass over the set taken in ascending id order.
C22_TiesById ==
    Mounted =>
        /\ \A i \in 1..Len(componentSpans), j \in 1..Len(componentSpans) :
               (i < j /\ Tie(componentSpans[i], componentSpans[j]))
                   => componentSpans[i].span_id < componentSpans[j].span_id
        /\ perInfo = layoutPass(variant, text, IdOrdered(componentSpans)).markup

\* the spans of the processed array that cover position p
CoveringAt(p) == {k \in 1..Len(componentSpans) : Covers(componentSpans[k], p)}

\* C23: a span opening at a position gets slot 1 when no span before it in
\* sort order is active there, and otherwise the slot of the last active span
\* before it plus 1; so pairwise non-overlapping spans all get slot 1, and
\* spans of one identical range opening where nothing else is open get the
\* slots 1..k in sort order.
C23_OpeningSlotRule ==
    Mounted =>
        /\ \A p \in Positions : \A j \in EntityIdx(p) :
               perInfo[p].entities[j].is_start
                   => perInfo[p].entities[j].render_slot
                          = IF j = 1 THEN 1
                            ELSE perInfo[p].entities[j - 1].render_slot + 1
        /\ (\A p \in Positions : Cardinality(CoveringAt(p)) <= 1)
               => \A p \in Positions : \A j \in EntityIdx(p) :
                      perInfo[p].entities[j].render_slot = 1
        /\ \A p \in Positions :
               (\A i \in CoveringAt(p), j \in CoveringAt(p) :
                    /\ componentSpans[i].start_token = p - 1
                    /\ componentSpans[i].end_token = componentSpans[j].end_token)
               => \A k \in CoveringAt(p) : SlotAt(p, k) = EntityOf(p, k)

\* C23 happens: three spans of the range [1,3) were laid out: they hold the
\* slots 1, 2, 3 at both positions of the range.
C23_Witness ==
    /\ lastOp.op = "load"
    /\ Len(componentSpans) = 3
    /\ \A k \in 1..3 : /\ componentSpans[k].start_token = 1
                       /\ componentSpans[k].end_token = 3
    /\ \A p \in {2, 3} : \A j \in 1..3 :
           /\ Len(perInfo[p].entities) = 3
           /\ perInfo[p].entities[j].render_slot = j

\* the unit a markup record carries
UnitOf(rec) == IF variant = "char" THEN rec.ch ELSE rec.text

\* C24: the position markup has exactly one record per text unit, in index
\* order; the record of index i has exactly one entry for each span with
\* start <= i < end and none for any other span; an entry has isStart true
\* iff i is the span's start; and the renderSlot of a span is the same value
\* (>= 1) in every record the span appears in: the slot given at its start.
C24_MarkupShape ==
    Mounted =>
        /\ Len(perInfo) = Len(text)
        /\ \A p \in Positions :
               /\ UnitOf(perInfo[p]) = text[p]
               /\ variant \in Variants => perInfo[p].idx = p - 1
               /\ Len(perInfo[p].entities) = Cardinality(CoveringAt(p))
               /\ \A k \in CoveringAt(p) :
                      /\ perInfo[p].entities[EntityOf(p, k)].label
                             = componentSpans[k].label
                      /\ variant \in Variants
                             => perInfo[p].entities[EntityOf(p, k)].span_id
                                    = componentSpans[k].span_id
                      /\ perInfo[p].entities[EntityOf(p, k)].is_start
                             = (p - 1 = componentSpans[k].start_token)
                      /\ SlotAt(p, k) >= 1
                      /\ SlotAt(p, k)
                             = SlotAt(componentSpans[k].start_token + 1, k)

\* C24 happens: the span [1,3) opened with slot 2 beside the span [0,2) and
\* is alone at the last position, where its entry still shows slot 2 and is
\* not a start.
C24_Witness ==
    /\ lastOp.op = "load"
    /\ Len(componentSpans) = 2
    /\ componentSpans[1].start_token = 0 /\ componentSpans[1].end_token = 2
    /\ componentSpans[2].start_token = 1 /\ componentSpans[2].end_token = 3
    /\ Len(perInfo[2].entities) = 2
    /\ perInfo[2].entities[2].is_start
    /\ perInfo[2].entities[2].render_slot = 2
    /\ Len(perInfo[3].entities) = 1
    /\ ~perInfo[3].entities[1].is_start
    /\ perInfo[3].entities[1].render_slot = 2

\* C25: a boundary adjustment changes one boundary only: a move of the start
\* leaves the span's end, label, pending label, editing state and id, a move
\* of the end leaves its start, label, pending label, editing state and id;
\* neither changes another span or the number of spans.
C25_OneBoundaryOnly ==
    [][(/\ lastOp'.op \in {"adjustStart", "adjustEnd"}
        /\ lastOp'.id \in Ids(componentSpans))
        => /\ Len(componentSpans') = Len(componentSpans)
           /\ Ids(componentSpans') = Ids(componentSpans)
           /\ OthersOf(componentSpans', lastOp'.id)
                  = OthersOf(componentSpans, lastOp'.id)
           /\ SpanOf(componentSpans', lastOp'.id).label
                  = SpanOf(componentSpans, lastOp'.id).label
           /\ SpanOf(componentSpans', lastOp'.id).tempLabel
                  = SpanOf(componentSpans, lastOp'.id).tempLabel
           /\ SpanOf(componentSpans', lastOp'.id).editing
                  = SpanOf(componentSpans, lastOp'.id).editing
           /\ lastOp'.op = "adjustStart"
                  => SpanOf(componentSpans', lastOp'.id).end_token
                         = SpanOf(componentSpans, lastOp'.id).end_token
           /\ lastOp'.op = "adjustEnd"
                  => SpanOf(componentSpans', lastOp'.id).start_token
                         = SpanOf(componentSpans, lastOp'.id).start_token]_vars

\* C25 happens: the start of span 1 was moved left from 1 to 0 while span 1
\* was in Editing with a changed pending label and a second span was in the
\* set.
C25_Witness ==
    /\ lastOp = [op |-> "adjustStart", id |-> 1, dir |-> "left", from |-> 1]
    /\ Len(componentSpans) = 2
    /\ 1 \in Ids(componentSpans)
    /\ SpanOf(componentSpans, 1).start_token = 0
    /\ SpanOf(componentSpans, 1).editing
    /\ SpanOf(componentSpans, 1).tempLabel # SpanOf(componentSpans, 1).label

\* the units e .. m-1 are whitespace and the units m .. f-1 are not
WsThenWord(e, m, f) ==
    /\ \A i \in e..(m - 1) : isWhitespace(text, i)
    /\ \A i \in m..(f - 1) : ~isWhitespace(text, i)

\* index n is 0 or the first character of a word
WordBeginning(n) ==
    n = 0 \/ (~isWhitespace(text, n) /\ isWhitespace(text, n - 1))

\* index n is the length or a whitespace directly after a word character
WordEnding(n) ==
    n = Len(text) \/ (isWhitespace(text, n) /\ ~isWhitespace(text, n - 1))

\* a move of the start to the left of a span with start > 0 was made
StartLeftStep ==
    /\ lastOp'.op = "adjustStart"
    /\ lastOp'.dir = "left"
    /\ lastOp'.id \in Ids(componentSpans)
    /\ SpanOf(componentSpans, lastOp'.id).start_token > 0

\* a move of the end to the right of a span with end < length was made
EndRightStep ==
    /\ lastOp'.op = "adjustEnd"
    /\ lastOp'.dir = "right"
    /\ lastOp'.id \in Ids(componentSpans)
    /\ SpanOf(componentSpans, lastOp'.id).end_token < Len(text)

\* C26 (as stated): after move-start-left on a span with start > 0 the new
\* start is 0 or the first character of a word; after move-end-right on a
\* span with end < length the new end is the length or a whitespace directly
\* after a word character, and exactly one whitespace run followed by one
\* non-whitespace run lies between the old and the new end.
C26_WordStepBothRuns ==
    [][/\ StartLeftStep
           => WordBeginning(SpanOf(componentSpans', lastOp'.id).start_token)
       /\ EndRightStep
           => /\ WordEnding(SpanOf(componentSpans', lastOp'.id).end_token)
              /\ \E m \in (SpanOf(componentSpans, lastOp'.id).end_token + 1)
                          ..(SpanOf(componentSpans', lastOp'.id).end_token - 1) :
                     WsThenWord(SpanOf(componentSpans, lastOp'.id).end_token, m,
                                SpanOf(componentSpans', lastOp'.id).end_token)]_vars

\* C26 (amended): as above, but of the two runs between the old and the new
\* end either may be empty, not both: the whitespace run is empty when the
\* old end is inside a word, the non-whitespace run when only whitespace
\* follows the old end.
C26_WordStep ==
    [][/\ StartLeftStep
           => WordBeginning(SpanOf(componentSpans', lastOp'.id).start_token)
       /\ EndRightStep
           => /\ WordEnding(SpanOf(componentSpans', lastOp'.id).end_token)
              /\ SpanOf(componentSpans', lastOp'.id).end_token
                     > SpanOf(componentSpans, lastOp'.id).end_token
              /\ \E m \in SpanOf(componentSpans, lastOp'.id).end_token
                          ..SpanOf(componentSpans', lastOp'.id).end_token :
                     WsThenWord(SpanOf(componentSpans, lastOp'.id).end_token, m,
                                SpanOf(componentSpans', lastOp'.id).end_token)]_vars

\* C26 happens: the end of the span [0,1) of the text "aa a", inside the
\* first word, was moved right: it is at 2, the end of that word.
C26_Witness ==
    /\ text = <<"a", "a", " ", "a">>
    /\ lastOp = [op |-> "adjustEnd", id |-> 1, dir |-> "right", from |-> 1]
    /\ 1 \in Ids(componentSpans)
    /\ SpanOf(componentSpans, 1).start_token = 0
    /\ SpanOf(componentSpans, 1).end_token = 2

\* C27: at every drawn position the vertical offset of a span with slot s is
\* baseOffset + step * (s - 1), and the height reserved for the position is
\* baseOffset + labelHeight + step * (m - 1), m being the largest renderSlot
\* among the spans active there.
C27_HeightCoversMaxSlot ==
    Mounted =>
        \A p \in Positions :
            drawn(text[p], perInfo[p].entities)
                => /\ \A i \in EntityIdx(p) :
                          topPos(perInfo[p].entities[i])
                              = top_offset + top_offset_step
                                    * (perInfo[p].entities[i].render_slot - 1)
                   /\ totalHeight(perInfo[p].entities)
                          = top_offset + span_label_offset
                                + top_offset_step * (MaxSlotAt(p) - 1)

\* the span sequence of a component as it is stored before the first layout
\* pass runs over it: the editable spans made of the input
StoredAtLoad(raw, firstId) ==
    toEditableSpans(variant, raw, allowedLabels, firstId)

\* C28: a layout pass has no side effect on the stored span set: after it the
\* stored sequence is in the same order as before, every span has the same
\* id, start, end, label, editing flag and pending label, and no render-slot
\* value is written into the stored spans.
C28_LayoutNoSideEffect ==
    [][(lastOp'.op = "load" /\ variant \in Variants)
        => /\ componentSpans' = StoredAtLoad(lastOp'.raw,
                                              globalSpanCounter'
                                                  - Len(componentSpans'))
           /\ \A k \in 1..Len(componentSpans') :
                  "render_slot" \notin DOMAIN componentSpans'[k]]_vars

\* the spans covering position p, in the order of the processed array
CoveringSeq(p) == SelectSeq(componentSpans, LAMBDA s : Covers(s, p))

\* C29: in every record of the position markup the entries appear in the sort
\* order of their spans and their renderSlot values rise strictly along the
\* list: the last entry holds the largest slot of the position and the
\* renderer's sort by renderSlot leaves the order as it is.
C29_EntriesRiseInSortOrder ==
    Mounted =>
        \A p \in Positions :
            /\ Len(perInfo[p].entities) = Len(CoveringSeq(p))
            /\ \A j \in EntityIdx(p) :
                   /\ perInfo[p].entities[j].label = CoveringSeq(p)[j].label
                   /\ j > 1
                       => /\ OrderedBefore(CoveringSeq(p)[j - 1], CoveringSeq(p)[j])
                          /\ perInfo[p].entities[j - 1].render_slot
                                 < perInfo[p].entities[j].render_slot
            /\ perInfo[p].entities # <<>>
                   => perInfo[p].entities[Len(perInfo[p].entities)].render_slot
                          = MaxSlotAt(p)
            /\ sortedEntities(perInfo[p].entities) = perInfo[p].entities

\* C29 happens: at position 1 a span open since position 0 is followed by
\* two spans opening there: the entries hold the slots 1, 2, 3 in that order.
C29_Witness ==
    /\ lastOp.op = "load"
    /\ Len(perInfo[2].entities) = 3
    /\ ~perInfo[2].entities[1].is_start
    /\ perInfo[2].entities[2].is_start
    /\ perInfo[2].entities[3].is_start
    /\ \A j \in 1..3 : perInfo[2].entities[j].render_slot = j

\* the list of spans the layout of the last load was given
LoadedList ==
    IF variant = "char" THEN AcceptedOf(lastOp.raw, allowedLabels)
    ELSE lastOp.raw

\* what an engine makes of a list of input spans over the units: the array
\* as the pass leaves it and the markup
EngineRun(engine, units, raw) ==
    layoutPass(engine, units,
               IF engine = "renderer" THEN raw ELSE mapEditable(raw, 1))

\* the (label, isStart, renderSlot) entries of a markup, position by position
Entries(markup) ==
    [p \in 1..Len(markup) |->
        [j \in 1..Len(markup[p].entities) |->
            [label |-> markup[p].entities[j].label,
             is_start |-> markup[p].entities[j].is_start,
             render_slot |-> markup[p].entities[j].render_slot]]]

\* the slots the spans of the array carry when the pass is over
SlotsLeft(spans) == [k \in 1..Len(spans) |-> spans[k].render_slot]

\* C30: the three layout engines are equivalent: given the same units and the
\* same list of spans they produce the same list of (label, isStart,
\* renderSlot) entries at every position, although the two token engines
\* reset the slot of a span to 0 at the positions it does not cover and the
\* character engine does not.
C30_EnginesEquivalent ==
    lastOp.op = "load" =>
        /\ \A e \in Engines :
               Entries(EngineRun(e, text, LoadedList).markup) = Entries(perInfo)
        /\ SlotsLeft(EngineRun("token", text, LoadedList).spans)
               = SlotsLeft(EngineRun("renderer", text, LoadedList).spans)
        /\ \A k \in 1..Len(LoadedList) :
               /\ SlotsLeft(EngineRun("char", text, LoadedList).spans)[k] >= 1
               /\ SlotsLeft(EngineRun("token", text, LoadedList).spans)[k]
                      \in {0, SlotsLeft(EngineRun("char", text, LoadedList).spans)[k]}

\* C30 happens: the token-addressed engine laid out a span that ends before
\* the last unit and overlaps an earlier one: its entries show slot 2, the
\* stored span was reset to 0 when the pass went on.
C30_Witness ==
    /\ lastOp.op = "load"
    /\ variant = "token"
    /\ Len(componentSpans) = 2
    /\ componentSpans[2].end_token < Len(text)
    /\ componentSpans[2].render_slot = 0
    /\ \E p \in Positions :
           /\ Len(perInfo[p].entities) = 2
           /\ perInfo[p].entities[2].render_slot = 2

\* C31: in the character-addressed component, when the host supplies no
\* accepted labels, every input span is dropped at load: the span set is
\* empty, no position has an entity and nothing but the empty list is
\* emitted when the effects of the load run, whatever the labels of the
\* input spans.
C31_NoLabelsDropsAll ==
    (Mounted /\ variant = "char" /\ allowedLabels = <<>>)
        => /\ componentSpans = <<>>
           /\ \A p \in Positions : perInfo[p].entities = <<>>
           /\ emitted = <<>>
           /\ globalSpanCounter = 1

\* C31 happens: the character-addressed component was loaded without labels
\* and with three input spans, labelled PERSON and LOC: none was materialized.
C31_Witness ==
    /\ lastOp.op = "load"
    /\ variant = "char"
    /\ allowedLabels = <<>>
    /\ Len(lastOp.raw) = 3
    /\ {lastOp.raw[k].label : k \in 1..3} = {"PERSON", "LOC"}
    /\ componentSpans = <<>>
    /\ Len(perInfo) = Len(text)

\* the span is at the limit of the move: start 0 for move-start-left, end =
\* length for move-end-right, width 1 for the two other moves
AtLimit(s, op, dir) ==
    IF op = "adjustStart" /\ dir = "left" THEN s.start_token = 0
    ELSE IF op = "adjustEnd" /\ dir = "right" THEN s.end_token = Len(text)
    ELSE s.end_token = s.start_token + 1

\* the move took the boundary of s strictly in its direction, giving t
Progress(s, t, op, dir) ==
    IF op = "adjustStart"
    THEN IF dir = "left" THEN t.start_token < s.start_token
         ELSE t.start_token > s.start_token
    ELSE IF dir = "left" THEN t.end_token < s.end_token
         ELSE t.end_token > s.end_token

\* the state array after the handler of the move has run n times in a row on
\* spans, each run followed by its render
RECURSIVE Repeated(_, _, _, _, _)
Repeated(spans, op, span_id, dir, n) ==
    IF n = 0 THEN spans
    ELSE Repeated(
             layoutPass(variant, text,
                        IF op = "adjustStart"
                        THEN adjustStartAll(text, spans, span_id, dir)
                        ELSE adjustEndAll(text, spans, span_id, dir)).spans,
             op, span_id, dir, n - 1)

\* one move of the span with the given id, made as many times as the text has
\* units, ends at the limit of the move, in a state array that one more move
\* leaves as it is
RestsWithinLength(op, span_id, dir) ==
    \E r \in {Repeated(componentSpans, op, span_id, dir, Len(text))} :
        /\ AtLimit(SpanOf(r, span_id), op, dir)
        /\ Repeated(r, op, span_id, dir, 1) = r

\* C32: on a valid span each boundary move makes strict progress in its
\* direction or changes nothing at its limit (start 0 for move-start-left,
\* end = length for move-end-right, width 1 for move-start-right and
\* move-end-left); the effects and the renders of the host that run between
\* two moves leave the spans as they are; hence from every state one move
\* repeated reaches, within as many moves as the text has units, a state at
\* the limit, which further repetition leaves unchanged.
C32_MovesProgress ==
    /\ [][((/\ lastOp'.op \in {"adjustStart", "adjustEnd"}
            /\ lastOp'.id \in Ids(componentSpans))
            => /\ lastOp'.id \in Ids(componentSpans')
               /\ IF AtLimit(SpanOf(componentSpans, lastOp'.id),
                             lastOp'.op, lastOp'.dir)
                  THEN componentSpans' = componentSpans
                  ELSE Progress(SpanOf(componentSpans, lastOp'.id),
                                SpanOf(componentSpans', lastOp'.id),
                                lastOp'.op, lastOp'.dir))
           /\ (lastOp'.op \in {"effects", "rerender"}
                => componentSpans' = componentSpans)]_vars
    /\ [](Mounted
            => \A span_id \in Ids(componentSpans), dir \in {"left", "right"},
                  op \in {"adjustStart", "adjustEnd"} :
                   RestsWithinLength(op, span_id, dir))

\* C32 happens: on the text "a aa" the start of the span was moved left a
\* second time, from 2, the beginning of the second word, to 0.
C32_Witness ==
    /\ text = <<"a", " ", "a", "a">>
    /\ lastOp = [op |-> "adjustStart", id |-> 1, dir |-> "left", from |-> 2]
    /\ 1 \in Ids(componentSpans)
    /\ SpanOf(componentSpans, 1).start_token = 0
    /\ SpanOf(componentSpans, 1).end_token = 4

\* the start unit of the span of the set spans is not whitespace
StartsOnWord(s) == ~isWhitespace(text, s.start_token)

\* the label and the controls of span s are drawn in the markup: the record
\* of a drawn position holds its start entity
ControlsDrawn(markup, s) ==
    \E p \in 1..Len(markup) :
        /\ drawn(text[p], markup[p].entities)
        /\ \E i \in 1..Len(markup[p].entities) :
               /\ markup[p].entities[i].span_id = s.span_id
               /\ markup[p].entities[i].is_start

\* C33: in the character-addressed variant a create-from-selection or a
\* boundary move made on a set whose spans all start on a non-whitespace
\* unit leaves a set whose spans all start on a non-whitespace unit, so every
\* span keeps its label and controls drawn.
C33_StartOnWordKept ==
    [][(/\ variant = "char"
        /\ lastOp'.op \in {"mouseup", "adjustStart", "adjustEnd"}
        /\ \A s \in Range(componentSpans) : StartsOnWord(s))
        => \A s \in Range(componentSpans') :
               StartsOnWord(s) /\ ControlsDrawn(perInfo', s)]_vars

===========================================================================
